---- MODULE Spec2Model ----
(***************************************************************************)
(* The training orchestrator of train_scripts/train.py (function main):    *)
(* the epoch/step loop, the resume arithmetic on global_step, the          *)
(* end-of-epoch and validation checkpoints and the KeyboardInterrupt       *)
(* handler, the calls of one training step, the tracked static sample and  *)
(* the reported events.  Models, losses, loaders and save_weights are       *)
(* collaborators: a call to one of them is recorded, its numeric results   *)
(* are drawn from small sets.                                              *)
(***************************************************************************)
EXTENDS Integers, Sequences, FiniteSets, TLC

\* ------------------------------------------------------------------ bounds
\* largest dataset size, len(data.train_loader.dataset)
MaxN == 4
\* largest args.batch_size
MaxB == 2
\* args.num_epochs
MaxEpochs == 3
\* largest args.pretrain_epochs
MaxPretrain == 1
\* largest args.val_test_epoch_interval
MaxInterval == 2
\* args.log_interval
MaxLogInterval == 2
\* largest averaged validation generator loss
MaxLoss == 1
\* largest len(data.val_loader)
MaxValLen == 2
\* largest len(data.test_loader)
MaxTestLen == 1
\* training steps behind a loaded global_step
MaxLoadedSteps == 2

DatasetSizes == (MaxN - 1)..MaxN
BatchSizes == {1, MaxB}
PretrainEpochs == {0, MaxPretrain}
AdversarialWeights == {0, 1}        \* zero, or some nonzero weight
Intervals == {1, MaxInterval}
ValLens == {0, MaxValLen}           \* no (or an empty) loader, or a loader
TestLens == {0, MaxTestLen}
LoadedEpochs == {0, MaxEpochs - 1, MaxEpochs}
LoadedSteps == {0, MaxLoadedSteps}
Losses == {0, MaxLoss}
InfLoss == MaxLoss + 1  \* the best loss of a run that never validated
Unbound == 0 - 1        \* a loop variable that was never assigned

VARIABLES
    args,           \* the options read by main: batch_size, num_epochs, ...
    data,           \* the loaders: dataset_len, train_len, val_len, test_len
    pc,             \* position of main
    global_step, start_epoch, loss,      \* as returned by load_models
    epoch, i,       \* the loop variables of main
    avg_g_loss,     \* avg_metrics.loss_dict["g_loss"]
    is_min,         \* the local is_min of the validation block
    last_save,      \* arguments of the latest save_weights call
    n_saves,        \* number of save_weights calls so far
    g_steps,        \* number of g_optimizer.step() calls so far
    d_invoked,      \* did the current training step call D / d_optimizer
    last_step,      \* epoch of the last step completed in this run (if
                    \* any) and global_step after the last completed step
    trained_epoch,  \* highest epoch in which g_optimizer.step() was called
    epoch_obs,      \* what happened in the current epoch
    run0,           \* global_step and loss when the loop was entered
    at_interrupt,   \* the state in which KeyboardInterrupt was raised
    loaded,         \* global_step and epoch as load_models returned them
    val_main,       \* val_scripts/val.py: its position, global_step and
                    \* start_epoch
    filename_static, \* the batch holding the tracked sample: empty, or
                    \* one entry naming the loader and the batch index
    loss_dict,      \* the loss mapping of the current training step
    step_events,    \* the calls of the current training step, in order
    epochs_run,     \* the values the epoch loop has taken, in order
    writer          \* per event name, the step key of its latest event

\* what the training loop never writes
cfgVars == <<args, data, loaded, val_main>>
vars == <<args, data, loaded, val_main, filename_static, loss_dict,
          step_events, epochs_run, writer, pc, global_step, start_epoch,
          loss, epoch, i, avg_g_loss, is_min, last_save, n_saves, g_steps,
          d_invoked, last_step, trained_epoch, epoch_obs, run0,
          at_interrupt>>

NoSave == [site |-> "none", epoch |-> Unbound, global_step |-> 0,
           loss |-> 0, is_min |-> "omitted", tag |-> "omitted"]
NoInterrupt == [pc |-> "none", epoch |-> Unbound, global_step |-> 0,
                n_saves |-> 0, g_steps |-> 0]
FreshEpoch == [steps |-> 0, latest_saves |-> 0, val_ran |-> FALSE,
               test_ran |-> FALSE, compares |-> 0, val_saves |-> 0,
               prior_loss |-> 0, boundary |-> FALSE, matched |-> {},
               exported |-> Unbound]

\* ------------------------------------------------------------- pure helpers

\* len(data.train_loader): batches per epoch of a loader over n items
TrainLoaderLen(n, b, drop_last) ==
    IF drop_last THEN n \div b ELSE (n + b - 1) \div b

\* the reconstruction counted in batches
CompatGlobalStepBatches(gs, ep, len, b) == IF gs = 0 THEN ep * len ELSE gs

\* line 99: global_step of a checkpoint that carries none
CompatGlobalStep(gs, ep, len, b) == IF gs = 0 THEN ep * len * b ELSE gs

\* line 101: the epoch re-derived from global_step
DeriveEpoch(gs, n) == gs \div n

\* val.py lines 74-77: the same reconstruction and re-derivation
ValCompatGlobalStep(gs, ep, len, b) == IF gs = 0 THEN ep * len * b ELSE gs
ValDeriveEpoch(gs, n) == gs \div n

\* line 144: the arithmetic half of the guard
AtEpochBoundary(gs, len, b) == (gs + 1) % (len * b) = 0

\* the guard without its first-epoch condition
ResumeGuardEveryEpoch(gs, len, b, ep, sep) == (gs + 1) % (len * b) = 0

\* lines 143-145: the guard that ends the resumed epoch
ResumeGuard(gs, len, b, ep, sep) == ((gs + 1) % (len * b) = 0) /\ (ep = sep)

\* line 222: the scalars are reported every tenth batch
ScalarInterval == 10

\* the names under which main reports; one entry stands for the names that
\* only differ in a metric or in the index of a sample
EventNames == {"lr/gen", "lr/disc", "Train_Metrics/*", "*/Train_*",
               "Val_Metrics/*", "*/Val_*", "*/Val_Static", "*/Test_*",
               "*/Test_Static"}

\* events keyed by the index of the batch
BatchKey(gs, idx) == idx

\* lines 224-264, 344-390, 451-478: every event is keyed by global_step
StepKey(gs, idx) == gs

\* lines 222-265: the names reported after a training step
TrainEvents(idx, adv, log_interval) ==
    (IF idx % ScalarInterval = 0
     THEN {"lr/gen", "Train_Metrics/*"}
          \cup (IF adv THEN {"lr/disc"} ELSE {})
     ELSE {})
    \cup (IF idx % log_interval = 0 THEN {"*/Train_*"} ELSE {})

\* lines 340-393: the names reported after the validation batches
ValEvents(fs) ==
    {"Val_Metrics/*", "*/Val_*"}
    \cup (IF fs # <<>> THEN {"*/Val_Static"} ELSE {})

\* lines 447-482: the names reported after the test batches
TestEvents(fs) ==
    {"*/Test_*"} \cup (IF fs # <<>> THEN {"*/Test_Static"} ELSE {})

\* writer.add_scalar, add_image, add_text: events of names under one key
Emit(w, names, key) ==
    [name \in DOMAIN w |-> IF name \in names THEN key ELSE w[name]]

\* a range that includes its stop value
InRangeInclusive(k, stop) == k <= stop

\* line 135: range(start_epoch, args.num_epochs) yields k
InRange(k, stop) == k < stop

\* a loss value: the literal 0.0, or whatever .item() measured
Zero == "0.0"
Measured == "item()"

\* lines 104-111: the keys of the loss mapping
LossKeys == {"g_loss", "d_loss", "adversarial_loss", "perception_loss",
             "image_loss", "train_PSNR"}

\* lines 201, 205: a scheduler cursor epochs + i / len(train_loader), held
\* as its numerator over len(train_loader)
Cursor(epochs, idx, len) == epochs * len + idx

\* lines 148-172: loss_dict after the discriminator branch
DiscLoss(adv) == [k \in {"d_loss"} |-> IF adv THEN Measured ELSE Zero]

\* lines 153-172: the calls of the discriminator branch
DiscPhase(adv) ==
    IF adv
    THEN <<<<"D.zero_grad">>, <<"G.zero_grad">>, <<"G.forward">>,
           <<"D.forward">>, <<"D.forward">>, <<"d_loss.backward">>,
           <<"d_optimizer.step">>>>
    ELSE <<>>

\* the generator phase entered without zeroing any gradient
NoZeroGrad == <<>>

\* line 177: G.zero_grad() opens the generator phase
GenZeroGrad == <<<<"G.zero_grad">>>>

\* lines 179-206: the calls of the generator phase after line 177
GenPhase(adv, ep, idx, len, pre) ==
    <<<<"G.forward">>>>
    \o (IF adv THEN <<<<"D.forward">>, <<"D.forward">>>> ELSE <<>>)
    \o <<<<"g_loss.backward">>, <<"g_optimizer.step">>,
         <<"g_lr_scheduler.step", Cursor(ep, idx, len)>>>>
    \o (IF adv THEN <<<<"d_lr_scheduler.step",
                           Cursor(ep - pre, idx, len)>>>>
               ELSE <<>>)

\* lines 197, 209-212: loss_dict after the generator phase
GenLoss(ld) == [k \in LossKeys |-> IF k \in DOMAIN ld THEN ld[k] ELSE Measured]

\* the discriminator branch taken from the end of pretraining on
UseDiscriminatorFromPretrain(lambda, ep, pre) == ep >= pre

\* lines 153, 181, 203: the discriminator branch of a training step
UseDiscriminator(lambda, ep, pre) == lambda # 0

\* the interval test taken one epoch late
ValTestEpochOffByOne(ep, interval) == (ep + 1) % interval = 0

\* line 288: validation and test run in this epoch
ValTestEpoch(ep, interval) == ep % interval = 0

\* a loader tested against None instead of for truth
LoaderNotNone(len) == len >= 0

\* lines 296, 423: truth value of a loader (a loader of length 0 is falsy)
LoaderPresent(len) == len > 0

\* the comparison turned around, and the comparison that admits ties
IsMinFlipped(avg, best) == avg > best
IsMinOrEqual(avg, best) == avg <= best

\* line 400: the best-loss comparison
IsMin(avg, best) == avg < best

\* global_step counting batches instead of samples
AdvanceByOne(gs, b) == gs + 1

\* line 216: global_step += args.batch_size
AdvanceGlobalStep(gs, b) == gs + b

\* the tracked sample kept from one pass to the next
KeepStatic(fs) == fs

\* lines 298, 424: filename_static = []
ResetStatic(fs) == <<>>

\* lines 325-329, 436-439: a batch holding the tracked filename replaces
\* filename_static and the tensors stored with it
TrackStatic(fs, match, loader, batch) ==
    IF match THEN <<[loader |-> loader, batch |-> batch]>> ELSE fs

\* lines 367-393, 463-482: the batch whose sample the export loop writes
StaticExport(fs) == IF fs = <<>> THEN Unbound ELSE fs[1].batch

\* a save_weights call
SaveCall(site, ep, gs, l, ismin, tag) ==
    [site |-> site, epoch |-> ep, global_step |-> gs, loss |-> l,
     is_min |-> ismin, tag |-> tag]

\* the handler saving under the 1-based epoch number that the log lines use
InterruptSaveNextEpoch(ep, gs, l) ==
    SaveCall("except", ep + 1, gs, l, "True", "omitted")

\* lines 494-504: the save_weights call of the interrupt handler
InterruptSave(ep, gs, l) == SaveCall("except", ep, gs, l, "True", "omitted")

\* -------------------------------------------------------------------- Init
\* The state when load_models has returned (line 83).  A checkpoint without
\* global_step is loaded as global_step 0 with its stored epoch; otherwise
\* the loaded epoch is overwritten at line 101 before it is read.
Init ==
    /\ \E n \in DatasetSizes, b \in BatchSizes, drop_last \in BOOLEAN,
          pre \in PretrainEpochs, lam \in AdversarialWeights,
          iv \in Intervals, vl \in ValLens, tl \in TestLens :
         /\ args = [batch_size |-> b, num_epochs |-> MaxEpochs,
                    pretrain_epochs |-> pre, lambda_adversarial |-> lam,
                    val_test_epoch_interval |-> iv,
                    log_interval |-> MaxLogInterval]
         /\ data = [dataset_len |-> n,
                    train_len |-> TrainLoaderLen(n, b, drop_last),
                    val_len |-> vl, test_len |-> tl]
    /\ \E m \in LoadedSteps, ep \in LoadedEpochs :
         /\ global_step = m * args.batch_size
         /\ start_epoch = IF m = 0 THEN ep ELSE 0
    /\ loaded = [global_step |-> global_step, start_epoch |-> start_epoch]
    /\ val_main = [pc |-> "load", global_step |-> global_step,
                   start_epoch |-> start_epoch]
    /\ loss \in {0, InfLoss}
    /\ pc = "load"
    /\ epoch = Unbound
    /\ i = Unbound
    /\ avg_g_loss = 0
    /\ is_min = FALSE
    /\ last_save = NoSave
    /\ n_saves = 0
    /\ g_steps = 0
    /\ d_invoked = FALSE
    /\ last_step = [epoch |-> Unbound, global_step |-> 0]
    /\ trained_epoch = Unbound
    /\ epoch_obs = FreshEpoch
    /\ run0 = [global_step |-> 0, loss |-> loss]
    /\ at_interrupt = NoInterrupt
    /\ filename_static = <<>>
    /\ loss_dict = [k \in LossKeys |-> Zero]
    /\ step_events = <<>>
    /\ epochs_run = <<>>
    /\ writer = [name \in EventNames |-> Unbound]

\* ----------------------------------------------------------------- actions

\* lines 97-101: compatibility with old checkpoints, start epoch re-derived
Setup ==
    /\ pc = "load"
    /\ LET gs == CompatGlobalStep(global_step, start_epoch, data.train_len,
                                  args.batch_size)
           ep == DeriveEpoch(gs, data.dataset_len)
       IN /\ global_step' = gs
          /\ start_epoch' = ep
          /\ run0' = [global_step |-> gs, loss |-> loss]
          /\ last_step' = [epoch |-> Unbound, global_step |-> gs]
    /\ pc' = "for_epoch"
    /\ UNCHANGED <<cfgVars, writer, epochs_run, loss_dict, step_events,
                   filename_static, loss, epoch, i, avg_g_loss, is_min,
                   last_save, n_saves, g_steps, d_invoked, trained_epoch,
                   epoch_obs, at_interrupt>>

\* val.py lines 64-77: the validation script loads the same checkpoint
ValMainSetup ==
    /\ val_main.pc = "load"
    /\ LET gs == ValCompatGlobalStep(val_main.global_step,
                                     val_main.start_epoch, data.train_len,
                                     args.batch_size)
       IN val_main' = [pc |-> "validate", global_step |-> gs,
                       start_epoch |-> ValDeriveEpoch(gs, data.dataset_len)]
    /\ UNCHANGED <<args, data, loaded, filename_static, loss_dict,
                   step_events, epochs_run, writer, pc, global_step,
                   start_epoch, loss, epoch, i, avg_g_loss, is_min,
                   last_save, n_saves, g_steps, d_invoked, last_step,
                   trained_epoch, epoch_obs, run0, at_interrupt>>

\* line 135: for epoch in range(start_epoch, args.num_epochs)
ForEpoch ==
    /\ pc = "for_epoch"
    /\ LET next == IF epoch = Unbound THEN start_epoch ELSE epoch + 1
       IN IF InRange(next, args.num_epochs)
          THEN /\ epoch' = next
               /\ i' = Unbound
               /\ epoch_obs' = FreshEpoch
               /\ epochs_run' = Append(epochs_run, next)
               /\ pc' = "for_batch"
          ELSE /\ pc' = "done"
               /\ UNCHANGED <<epoch, i, epoch_obs, epochs_run>>
    /\ UNCHANGED <<cfgVars, writer, loss_dict, step_events, filename_static,
                   global_step, start_epoch, loss, avg_g_loss, is_min,
                   last_save, n_saves, g_steps, d_invoked, last_step,
                   trained_epoch, run0, at_interrupt>>

\* lines 141-146: next training batch, and the resume guard
ForBatch ==
    /\ pc = "for_batch"
    /\ IF i + 1 < data.train_len
       THEN /\ i' = i + 1
            /\ pc' = IF ResumeGuard(global_step, data.train_len,
                                    args.batch_size, epoch, start_epoch)
                     THEN "save_latest" ELSE "train_d"
            /\ epoch_obs' =
                 [epoch_obs EXCEPT !.boundary =
                    @ \/ AtEpochBoundary(global_step, data.train_len,
                                         args.batch_size)]
       ELSE /\ pc' = "save_latest"
            /\ UNCHANGED <<i, epoch_obs>>
    /\ UNCHANGED <<cfgVars, writer, epochs_run, loss_dict, step_events,
                   filename_static, global_step, start_epoch, loss, epoch,
                   avg_g_loss, is_min, last_save, n_saves, g_steps,
                   d_invoked, last_step, trained_epoch, run0, at_interrupt>>

\* lines 148-172: the discriminator phase of a training step
TrainD ==
    /\ pc = "train_d"
    /\ LET adv == UseDiscriminator(args.lambda_adversarial, epoch,
                                   args.pretrain_epochs)
       IN /\ d_invoked' = adv
          /\ loss_dict' = DiscLoss(adv)
          /\ step_events' = DiscPhase(adv)
    /\ pc' = "train_g"
    /\ UNCHANGED <<cfgVars, writer, epochs_run, filename_static, global_step,
                   start_epoch, loss, epoch, i, avg_g_loss, is_min,
                   last_save, n_saves, g_steps, last_step, trained_epoch,
                   epoch_obs, run0, at_interrupt>>

\* lines 174-206: the generator phase, g_optimizer.step() and the schedulers
TrainG ==
    /\ pc = "train_g"
    /\ g_steps' = g_steps + 1
    /\ trained_epoch' = epoch
    /\ step_events' =
         step_events \o GenZeroGrad
         \o GenPhase(UseDiscriminator(args.lambda_adversarial, epoch,
                                      args.pretrain_epochs),
                     epoch, i, data.train_len, args.pretrain_epochs)
    /\ loss_dict' = GenLoss(loss_dict)
    /\ pc' = "train_acc"
    /\ UNCHANGED <<cfgVars, writer, epochs_run, filename_static, global_step,
                   start_epoch, loss, epoch, i, avg_g_loss, is_min,
                   last_save, n_saves, d_invoked, last_step, epoch_obs, run0,
                   at_interrupt>>

\* lines 208-265: fold the losses, advance global_step, report
TrainAcc ==
    /\ pc = "train_acc"
    /\ global_step' = AdvanceGlobalStep(global_step, args.batch_size)
    /\ last_step' = [epoch |-> epoch, global_step |-> global_step']
    /\ epoch_obs' = [epoch_obs EXCEPT !.steps = @ + 1]
    /\ writer' = Emit(writer,
                      TrainEvents(i, UseDiscriminator(
                                         args.lambda_adversarial, epoch,
                                         args.pretrain_epochs),
                                  args.log_interval),
                      StepKey(global_step', i))
    /\ pc' = "for_batch"
    /\ UNCHANGED <<cfgVars, epochs_run, loss_dict, step_events,
                   filename_static, start_epoch, loss, epoch, i, avg_g_loss,
                   is_min, last_save, n_saves, g_steps, d_invoked,
                   trained_epoch, run0, at_interrupt>>

\* lines 267-285: the end-of-epoch checkpoint
SaveLatest ==
    /\ pc = "save_latest"
    /\ last_save' = SaveCall("epoch_end", epoch, global_step, loss,
                             "omitted", "latest")
    /\ n_saves' = n_saves + 1
    /\ epoch_obs' = [epoch_obs EXCEPT !.latest_saves = @ + 1]
    /\ pc' = "val_check"
    /\ UNCHANGED <<cfgVars, writer, epochs_run, loss_dict, step_events,
                   filename_static, global_step, start_epoch, loss, epoch, i,
                   avg_g_loss, is_min, g_steps, d_invoked, last_step,
                   trained_epoch, run0, at_interrupt>>

\* lines 287-289: run val and test only occasionally
ValCheck ==
    /\ pc = "val_check"
    /\ pc' = IF ValTestEpoch(epoch, args.val_test_epoch_interval)
             THEN "val_begin" ELSE "for_epoch"
    /\ UNCHANGED <<cfgVars, writer, epochs_run, loss_dict, step_events,
                   filename_static, global_step, start_epoch, loss, epoch, i,
                   avg_g_loss, is_min, last_save, n_saves, g_steps,
                   d_invoked, last_step, trained_epoch, epoch_obs, run0,
                   at_interrupt>>

\* lines 296-299: if data.val_loader, reset the average
ValBegin ==
    /\ pc = "val_begin"
    /\ IF LoaderPresent(data.val_len)
       THEN /\ avg_g_loss' = 0
            /\ i' = Unbound
            /\ filename_static' = ResetStatic(filename_static)
            /\ epoch_obs' = [epoch_obs EXCEPT !.val_ran = TRUE,
                                              !.prior_loss = loss]
            /\ pc' = "val_batch"
       ELSE /\ pc' = "test_begin"
            /\ UNCHANGED <<avg_g_loss, i, epoch_obs, filename_static>>
    /\ UNCHANGED <<cfgVars, writer, epochs_run, loss_dict, step_events,
                   global_step, start_epoch, loss, epoch, is_min, last_save,
                   n_saves, g_steps, d_invoked, last_step, trained_epoch,
                   run0, at_interrupt>>

\* lines 301-338: one validation batch folded into avg_metrics; the mean of
\* the generator losses seen so far is some value of Losses
ValBatch ==
    /\ pc = "val_batch"
    /\ IF i + 1 < data.val_len
       THEN /\ i' = i + 1
            /\ avg_g_loss' \in Losses
            /\ \E match \in BOOLEAN :
                 /\ filename_static' =
                      TrackStatic(filename_static, match, "val", i')
                 /\ epoch_obs' =
                      [epoch_obs EXCEPT !.matched =
                         IF match THEN @ \cup {i'} ELSE @]
            /\ pc' = "val_batch"
       ELSE /\ pc' = "val_compare"
            /\ UNCHANGED <<i, avg_g_loss, filename_static, epoch_obs>>
    /\ UNCHANGED <<cfgVars, writer, epochs_run, loss_dict, step_events,
                   global_step, start_epoch, loss, epoch, is_min, last_save,
                   n_saves, g_steps, d_invoked, last_step, trained_epoch,
                   run0, at_interrupt>>

\* lines 340-404: report the metrics and samples, then compare with the best
ValCompare ==
    /\ pc = "val_compare"
    /\ is_min' = IsMin(avg_g_loss, loss)
    /\ loss' = IF IsMin(avg_g_loss, loss) THEN avg_g_loss ELSE loss
    /\ epoch_obs' = [epoch_obs EXCEPT
                       !.compares = @ + 1,
                       !.exported = StaticExport(filename_static)]
    /\ writer' = Emit(writer, ValEvents(filename_static),
                      StepKey(global_step, i))
    /\ pc' = "val_save"
    /\ UNCHANGED <<cfgVars, epochs_run, loss_dict, step_events,
                   filename_static, global_step, start_epoch, epoch, i,
                   avg_g_loss, last_save, n_saves, g_steps, d_invoked,
                   last_step, trained_epoch, run0, at_interrupt>>

\* lines 406-420: the validation checkpoint
ValSave ==
    /\ pc = "val_save"
    /\ last_save' = SaveCall("val", epoch, global_step, loss,
                             IF is_min THEN "True" ELSE "False", "best")
    /\ n_saves' = n_saves + 1
    /\ epoch_obs' = [epoch_obs EXCEPT !.val_saves = @ + 1]
    /\ pc' = "test_begin"
    /\ UNCHANGED <<cfgVars, writer, epochs_run, loss_dict, step_events,
                   filename_static, global_step, start_epoch, loss, epoch, i,
                   avg_g_loss, is_min, g_steps, d_invoked, last_step,
                   trained_epoch, run0, at_interrupt>>

\* lines 422-425: if data.test_loader
TestBegin ==
    /\ pc = "test_begin"
    /\ IF LoaderPresent(data.test_len)
       THEN /\ i' = Unbound
            /\ filename_static' = ResetStatic(filename_static)
            /\ epoch_obs' = [epoch_obs EXCEPT !.test_ran = TRUE]
            /\ pc' = "test_batch"
       ELSE /\ pc' = "for_epoch"
            /\ UNCHANGED <<i, epoch_obs, filename_static>>
    /\ UNCHANGED <<cfgVars, writer, epochs_run, loss_dict, step_events,
                   global_step, start_epoch, loss, epoch, avg_g_loss, is_min,
                   last_save, n_saves, g_steps, d_invoked, last_step,
                   trained_epoch, run0, at_interrupt>>

\* lines 427-484: the test batches, then the export of their samples
TestBatch ==
    /\ pc = "test_batch"
    /\ IF i + 1 < data.test_len
       THEN /\ i' = i + 1
            /\ \E match \in BOOLEAN :
                 filename_static' =
                     TrackStatic(filename_static, match, "test", i')
            /\ pc' = "test_batch"
            /\ UNCHANGED writer
       ELSE /\ writer' = Emit(writer, TestEvents(filename_static),
                              StepKey(global_step, i))
            /\ pc' = "for_epoch"
            /\ UNCHANGED <<i, filename_static>>
    /\ UNCHANGED <<cfgVars, epochs_run, loss_dict, step_events, global_step,
                   start_epoch, loss, epoch, avg_g_loss, is_min, last_save,
                   n_saves, g_steps, d_invoked, last_step, trained_epoch,
                   epoch_obs, run0, at_interrupt>>

\* positions inside the try block of line 134
InTry == {"for_epoch", "for_batch", "train_d", "train_g", "train_acc",
          "save_latest", "val_check", "val_begin", "val_batch",
          "val_compare", "val_save", "test_begin", "test_batch"}

\* line 486: KeyboardInterrupt raised anywhere inside the try block
KeyboardInterrupt ==
    /\ pc \in InTry
    /\ at_interrupt' = [pc |-> pc, epoch |-> epoch,
                        global_step |-> global_step, n_saves |-> n_saves,
                        g_steps |-> g_steps]
    /\ pc' = "except"
    /\ UNCHANGED <<cfgVars, writer, epochs_run, loss_dict, step_events,
                   filename_static, global_step, start_epoch, loss, epoch, i,
                   avg_g_loss, is_min, last_save, n_saves, g_steps,
                   d_invoked, last_step, trained_epoch, epoch_obs, run0>>

\* lines 486-504: the handler; epoch is unbound when the signal arrived
\* before the first iteration assigned it, and line 495 then raises
Except ==
    /\ pc = "except"
    /\ IF epoch = Unbound
       THEN /\ pc' = "error"
            /\ UNCHANGED <<last_save, n_saves>>
       ELSE /\ last_save' = InterruptSave(epoch, global_step, loss)
            /\ n_saves' = n_saves + 1
            /\ pc' = "exit"
    /\ UNCHANGED <<cfgVars, writer, epochs_run, loss_dict, step_events,
                   filename_static, global_step, start_epoch, loss, epoch, i,
                   avg_g_loss, is_min, g_steps, d_invoked, last_step,
                   trained_epoch, epoch_obs, run0, at_interrupt>>

Next ==
    \/ Setup \/ ForEpoch \/ ForBatch \/ TrainD \/ TrainG \/ TrainAcc
    \/ SaveLatest \/ ValCheck \/ ValBegin \/ ValBatch \/ ValCompare
    \/ ValSave \/ TestBegin \/ TestBatch \/ KeyboardInterrupt \/ Except

Spec == Init /\ [][Next]_vars

\* a run that no KeyboardInterrupt reaches; main is one thread that always
\* takes its next step
NextRun ==
    \/ Setup \/ ForEpoch \/ ForBatch \/ TrainD \/ TrainG \/ TrainAcc
    \/ SaveLatest \/ ValCheck \/ ValBegin \/ ValBatch \/ ValCompare
    \/ ValSave \/ TestBegin \/ TestBatch

SpecRun == Init /\ [][NextRun]_vars /\ WF_vars(NextRun)

\* the start-up of both scripts on one loaded checkpoint
NextCompat == Setup \/ ValMainSetup
SpecCompat == Init /\ [][NextCompat]_vars

\* ------------------------------------------------------------------ claims

\* k: the batches of the resumed epoch that the loaded global_step already
\* covers (the epoch boundary of the guard is train_len * batch_size)
CompletedInEpoch ==
    (run0.global_step % (data.train_len * args.batch_size))
        \div args.batch_size

\* the first epoch of the run has just finished its batch loop
FirstEpochOver == pc = "save_latest" /\ epoch = start_epoch

\* C1: a run resumed k batches into an epoch (0 < k < steps per epoch)
\* executes only the remaining train_len - k batches in its first epoch.
ResumeSkipsCompleted ==
    (FirstEpochOver /\ 0 < CompletedInEpoch
                    /\ CompletedInEpoch < data.train_len)
        => epoch_obs.steps = data.train_len - CompletedInEpoch

\* a save_weights call has just returned and nothing was trained since
JustSaved == pc \in {"val_check", "test_begin", "exit"}
             /\ last_save.site # "none"

\* C2: re-deriving the epoch from the global_step of any checkpoint the
\* loop writes gives the epoch that was passed as epoch= to that write.
ResumeIdempotence ==
    last_save.site # "none"
        => DeriveEpoch(last_save.global_step, data.dataset_len)
               = last_save.epoch

\* C3: the epoch re-derived from a written checkpoint is never lower than
\* the index of an epoch in which training had already taken place.
EpochNeverRegresses ==
    JustSaved
        => DeriveEpoch(last_save.global_step, data.dataset_len)
               >= trained_epoch

\* C4: a save flagged is_min=True is only ever issued by a validation pass
\* that has just found its averaged loss strictly below the recorded best.
BestOnlyOnImprovement ==
    last_save.is_min = "True"
        => /\ last_save.site = "val"
           /\ JustSaved => /\ epoch_obs.compares = 1
                           /\ avg_g_loss < epoch_obs.prior_loss

\* C8: a training step of an epoch below pretrain_epochs never invokes the
\* discriminator; from pretrain_epochs on, with a nonzero adversarial
\* weight, every training step invokes it.
ModeSelection ==
    pc \in {"train_g", "train_acc"}
        => /\ epoch < args.pretrain_epochs => ~d_invoked
           /\ (epoch >= args.pretrain_epochs
                  /\ args.lambda_adversarial # 0) => d_invoked

\* C5: the recorded best loss never increases, and it changes only when the
\* validation comparison replaces it by a strictly smaller averaged loss.
BestLossNonIncreasing ==
    [][/\ loss' <= loss
       /\ loss' # loss => /\ pc = "val_compare"
                          /\ avg_g_loss < loss
                          /\ loss' = avg_g_loss]_vars

\* C5 witness: a validation pass has lowered the best loss
BestLossReplaced ==
    pc = "val_save" /\ is_min /\ loss < epoch_obs.prior_loss

\* a validation pass of the current epoch is over
ValidationPassOver == pc = "test_begin" /\ epoch_obs.val_ran

\* C6: a validation pass compares once and saves once under tag "best",
\* flagged is_min exactly when its averaged loss is strictly below the
\* best loss recorded before the pass; a tie leaves the best loss alone.
OneDecisionPerValidationPass ==
    /\ epoch_obs.compares <= 1
    /\ epoch_obs.val_saves <= 1
    /\ ValidationPassOver
          => /\ epoch_obs.compares = 1
             /\ epoch_obs.val_saves = 1
             /\ last_save.site = "val"
             /\ last_save.tag = "best"
             /\ last_save.is_min = "True"
                   <=> avg_g_loss < epoch_obs.prior_loss
             /\ avg_g_loss >= epoch_obs.prior_loss
                   => loss = epoch_obs.prior_loss
             /\ last_save.loss = loss

\* C6 witness: a pass whose averaged loss ties the best loss
ValidationTie ==
    /\ ValidationPassOver
    /\ avg_g_loss = epoch_obs.prior_loss
    /\ last_save.is_min = "False"

\* C7 as stated: the interrupt leads to exactly one more save, carrying the
\* epoch and the global_step of the most recently completed training step.
InterruptSavesLastCompletedStep ==
    (pc = "exit" /\ last_step.epoch # Unbound)
        => /\ n_saves = at_interrupt.n_saves + 1
           /\ last_save.site = "except"
           /\ last_save.epoch = last_step.epoch
           /\ last_save.global_step = last_step.global_step

\* C7 amended: the interrupt leads to exactly one more save, carrying the
\* value the loop variable epoch had when the signal arrived and the
\* global_step after the most recently completed training step; nothing
\* is trained, validated or saved after it.
InterruptSavesOnce ==
    /\ [](pc = "exit"
            => /\ n_saves = at_interrupt.n_saves + 1
               /\ last_save.site = "except"
               /\ last_save.epoch = at_interrupt.epoch
               /\ last_save.global_step = last_step.global_step
               /\ g_steps = at_interrupt.g_steps
               /\ global_step = at_interrupt.global_step)
    /\ [][pc # "exit"]_vars

\* C7 witness: the signal arrived inside a training step, after
\* g_optimizer.step() and before global_step was advanced
InterruptedMidStep == pc = "exit" /\ at_interrupt.pc = "train_acc"

\* C9: with a validation loader that yields no batches the best loss stays
\* what it was and no validation save is issued.
EmptyValLoaderIsNoOp ==
    data.val_len = 0
        => /\ loss = run0.loss
           /\ last_save.site # "val"
           /\ epoch_obs.compares = 0
           /\ ~epoch_obs.val_ran

\* C9 witness: an epoch due for validation went past the validation block
\* with an empty loader and a best loss that could have been lowered
EmptyValLoaderPassed ==
    data.val_len = 0 /\ pc = "test_begin" /\ loss > 0

\* the body of an epoch has been left without an interrupt
EpochOver == pc \in {"for_epoch", "done"} /\ epoch # Unbound

\* where the latest checkpoint of the epoch is still to come, and where it
\* has been written
BeforeLatest == {"for_batch", "train_d", "train_g", "train_acc",
                 "save_latest"}
AfterLatest == {"val_check", "val_begin", "val_batch", "val_compare",
                "val_save", "test_begin", "test_batch"}

LatestOncePerEpoch ==
    /\ pc \in BeforeLatest
          => /\ epoch_obs.latest_saves = 0
             /\ ~epoch_obs.val_ran /\ ~epoch_obs.test_ran
    /\ pc \in AfterLatest => epoch_obs.latest_saves = 1
    /\ EpochOver => epoch_obs.latest_saves = 1

IntervalHit == epoch % args.val_test_epoch_interval = 0

\* C10 as stated: one latest save per epoch, after the last training step
\* and before validation and test, which run exactly in the epochs with
\* epoch % val_test_epoch_interval = 0.
ValTestIffInterval ==
    /\ LatestOncePerEpoch
    /\ EpochOver => ((epoch_obs.val_ran \/ epoch_obs.test_ran)
                        <=> IntervalHit)

\* C10 amended: one latest save per epoch, after the last training step
\* and before validation and test; validation runs exactly when
\* epoch % val_test_epoch_interval = 0 and the validation loader is
\* non-empty, the test pass exactly when epoch % val_test_epoch_interval = 0
\* and the test loader is non-empty.
ValTestIffIntervalAndLoader ==
    /\ LatestOncePerEpoch
    /\ EpochOver
          => /\ epoch_obs.val_ran <=> (IntervalHit /\ data.val_len > 0)
             /\ epoch_obs.test_ran <=> (IntervalHit /\ data.test_len > 0)

\* C10 witness: epoch 2 under interval 2 ran validation and test after its
\* latest save
EpochValidatedAndTested ==
    /\ EpochOver /\ epoch = 2 /\ args.val_test_epoch_interval = 2
    /\ epoch_obs.val_ran /\ epoch_obs.test_ran
    /\ epoch_obs.latest_saves = 1

\* C11: global_step never decreases; a training step adds exactly
\* batch_size to it, and nothing else in the loop (the resume guard, the
\* checkpoint writes, validation, test, the interrupt handler) changes it.
GlobalStepMonotone ==
    [][/\ global_step' >= global_step
       /\ (pc = "train_acc" /\ pc' = "for_batch")
             => global_step' = global_step + args.batch_size
       /\ (pc # "load" /\ global_step' # global_step)
             => (pc = "train_acc" /\ pc' = "for_batch")]_vars

\* C11 witness: a training step has advanced global_step and the epoch has
\* gone on to its checkpoint
StepAdvancedGlobalStep ==
    /\ pc = "val_check"
    /\ global_step = run0.global_step + epoch_obs.steps * args.batch_size
    /\ epoch_obs.steps > 0
    /\ args.batch_size > 1

\* both scripts are past their start-up on an old-format checkpoint
OldFormatLoaded ==
    /\ loaded.global_step = 0
    /\ pc # "load"
    /\ val_main.pc # "load"

GuardOnlyInFirstEpoch ==
    /\ (pc = "save_latest" /\ epoch # start_epoch)
          => epoch_obs.steps = data.train_len
    /\ (pc = "save_latest" /\ epoch_obs.steps < data.train_len)
          => epoch = start_epoch

\* C16 witness: a later epoch met the guard's arithmetic condition and
\* still ran every batch
LaterEpochPassedBoundary ==
    /\ pc = "save_latest"
    /\ epoch > start_epoch
    /\ epoch_obs.boundary
    /\ epoch_obs.steps = data.train_len

\* the first batch of the current validation pass that held the tracked
\* filename
FirstMatch ==
    CHOOSE b \in epoch_obs.matched : \A c \in epoch_obs.matched : b <= c

\* the export step of the current validation pass is over
StaticExportOver == pc = "val_save"

\* C13: when several batches of one validation pass hold the tracked
\* filename, the exported triple is the one of the first such batch.
FirstMatchWins ==
    (StaticExportOver /\ epoch_obs.matched # {})
        => epoch_obs.exported = FirstMatch

\* C14: a validation pass exports the static sample exactly when some batch
\* of that same pass held the tracked filename, and what it exports was
\* matched in that pass.
StaticExportIffMatched ==
    StaticExportOver
        => /\ epoch_obs.exported # Unbound <=> epoch_obs.matched # {}
           /\ epoch_obs.exported # Unbound
                 => epoch_obs.exported \in epoch_obs.matched

\* C14 witness: a pass without a match, after an earlier pass of the same
\* run, skips the export
NoMatchAfterEarlierPass ==
    /\ StaticExportOver
    /\ epoch_obs.matched = {}
    /\ epoch_obs.exported = Unbound
    /\ epoch > start_epoch
    /\ args.val_test_epoch_interval = 1

\* the calls of the current training step are complete
StepCallsOver == pc = "train_acc"

\* positions of the calls of one name in the current training step
Calls(op) == {k \in 1..Len(step_events) : step_events[k][1] = op}

\* C15: with a zero adversarial weight the loss mapping that a training
\* step folds into the accumulator holds the key d_loss with the value 0.0,
\* and the step calls neither the discriminator nor its optimizer nor its
\* scheduler.
NoDiscriminatorWithoutWeight ==
    (StepCallsOver /\ args.lambda_adversarial = 0)
        => /\ "d_loss" \in DOMAIN loss_dict
           /\ loss_dict["d_loss"] = Zero
           /\ Calls("D.forward") = {}
           /\ Calls("d_optimizer.step") = {}
           /\ Calls("d_lr_scheduler.step") = {}
           /\ ~d_invoked

\* C15 witness: a step with zero weight in an epoch past pretraining
ZeroWeightStepPastPretrain ==
    /\ StepCallsOver
    /\ args.lambda_adversarial = 0
    /\ epoch >= args.pretrain_epochs
    /\ loss_dict["d_loss"] = Zero
    /\ loss_dict["g_loss"] = Measured

\* a training step that took the discriminator branch has made its calls
AdversarialStepOver == StepCallsOver /\ args.lambda_adversarial # 0

First(S) == CHOOSE k \in S : \A j \in S : k <= j
Last(S) == CHOOSE k \in S : \A j \in S : k >= j

\* was op called at one of the positions lo..hi of the current step
CalledWithin(op, lo, hi) == \E k \in Calls(op) : lo <= k /\ k <= hi

\* the discriminator update precedes the generator update, and both
\* networks are zeroed before the first forward pass of the step
DiscriminatorThenGenerator ==
    /\ Cardinality(Calls("d_optimizer.step")) = 1
    /\ Cardinality(Calls("g_optimizer.step")) = 1
    /\ First(Calls("d_optimizer.step")) < First(Calls("g_optimizer.step"))
    /\ CalledWithin("D.zero_grad", 1, First(Calls("G.forward")))
    /\ CalledWithin("G.zero_grad", 1, First(Calls("G.forward")))

\* C18 as stated: in an adversarial step the discriminator is updated
\* before the generator, and the gradients of both networks are zeroed
\* before the discriminator phase and again before the generator phase.
BothZeroedBeforeEachPhase ==
    AdversarialStepOver
        => /\ DiscriminatorThenGenerator
           /\ CalledWithin("G.zero_grad", First(Calls("d_optimizer.step")),
                           Last(Calls("G.forward")))
           /\ CalledWithin("D.zero_grad", First(Calls("d_optimizer.step")),
                           Last(Calls("G.forward")))

\* C18 amended: in an adversarial step the discriminator is updated before
\* the generator; both networks are zeroed before the discriminator phase,
\* and the generator alone is zeroed again before the generator phase.
GeneratorZeroedBeforeItsPhase ==
    AdversarialStepOver
        => /\ DiscriminatorThenGenerator
           /\ CalledWithin("G.zero_grad", First(Calls("d_optimizer.step")),
                           Last(Calls("G.forward")))
           /\ ~CalledWithin("D.zero_grad", First(Calls("d_optimizer.step")),
                            Len(step_events))

\* C18 witness: an adversarial step with both optimizer updates made
AdversarialStepUpdatedBoth ==
    /\ AdversarialStepOver
    /\ Calls("d_optimizer.step") # {}
    /\ Calls("g_optimizer.step") # {}
    /\ Cardinality(Calls("G.zero_grad")) = 2

\* C19: the generator scheduler is advanced once per generator update with
\* cursor epoch + i / steps_per_epoch; the discriminator scheduler is
\* advanced once per discriminator update, only in adversarial mode, with
\* cursor epoch - pretrain_epochs + i / steps_per_epoch, which is never
\* negative.
SchedulerCursors ==
    StepCallsOver
        => /\ Cardinality(Calls("g_lr_scheduler.step"))
                 = Cardinality(Calls("g_optimizer.step"))
           /\ \A k \in Calls("g_lr_scheduler.step") :
                 step_events[k][2] = Cursor(epoch, i, data.train_len)
           /\ Cardinality(Calls("d_lr_scheduler.step"))
                 = Cardinality(Calls("d_optimizer.step"))
           /\ Calls("d_lr_scheduler.step") # {}
                 => args.lambda_adversarial # 0
           /\ \A k \in Calls("d_lr_scheduler.step") :
                 /\ step_events[k][2]
                       = Cursor(epoch - args.pretrain_epochs, i,
                                data.train_len)
                 /\ step_events[k][2] >= 0

\* the epochs of range(start_epoch, num_epochs), in order
EpochRange ==
    [k \in 1..(IF start_epoch < args.num_epochs
               THEN args.num_epochs - start_epoch ELSE 0)
        |-> start_epoch + k - 1]

\* C17: an uninterrupted run terminates, having run the epochs start_epoch,
\* ..., num_epochs - 1 once each in increasing order; when start_epoch is
\* at least num_epochs it makes no training step and writes no checkpoint.
RunTerminates ==
    /\ <>(pc = "done")
    /\ [](pc = "done"
            => /\ epochs_run = EpochRange
               /\ start_epoch >= args.num_epochs
                     => (g_steps = 0 /\ n_saves = 0 /\ epochs_run = <<>>))
    /\ [](Len(epochs_run) > 1
            => epochs_run[Len(epochs_run)]
                   = epochs_run[Len(epochs_run) - 1] + 1)

\* C17 witness: a run over several epochs has stopped
RunOverSeveralEpochs ==
    /\ pc = "done"
    /\ Len(epochs_run) >= 2
    /\ g_steps > 0
    /\ epoch = args.num_epochs - 1

\* a run that starts at or past num_epochs has stopped
RunPastLastEpoch ==
    pc = "done" /\ start_epoch >= args.num_epochs /\ epochs_run = <<>>

\* C20: for every event name, the step keys of its events never decrease
\* over a run.
EventKeysMonotone ==
    [][\A name \in EventNames : writer'[name] >= writer[name]]_vars

\* C20 witness: the training samples were reported for batch 0 and again
\* for batch 2 of one epoch, and the validation metrics in a later epoch
\* than the first
EventsRepeated ==
    /\ pc = "val_save"
    /\ epoch > start_epoch
    /\ epoch_obs.steps = data.train_len
    /\ data.train_len > args.log_interval
    /\ writer["*/Train_*"] > run0.global_step + args.batch_size
    /\ writer["Val_Metrics/*"] = global_step
    /\ writer["lr/gen"] < writer["*/Train_*"]

\* C21: every save_weights call writes the global_step at the start of the
\* run plus batch_size times the number of g_optimizer.step() calls made so
\* far in the run, also when the interrupt arrives inside a training step.
SavedStepInSyncWithOptimizer ==
    [][n_saves' # n_saves
          => last_save'.global_step
                 = run0.global_step + args.batch_size * g_steps']_vars

\* the run started from a checkpoint with global_step 0 and epoch 0
FreshRun == loaded.global_step = 0 /\ loaded.start_epoch = 0

\* C22: in a fresh run every epoch, the first included, trains on every
\* batch of the training loader, so that after epoch e global_step is
\* (e + 1) * steps_per_epoch * batch_size, whatever the batch size.
FreshRunDropsNoBatch ==
    (FreshRun /\ pc = "save_latest")
        => /\ epoch_obs.steps = data.train_len
           /\ global_step = (epoch + 1) * data.train_len * args.batch_size
====
